---- MODULE Spec2Model ----
\* Model of Spec.prototype.create (src/lib/spec.js): the asynchronous,
\* memoizing creation protocol of one Specification S, driven by an external
\* container, an external factory (instantiate) and external event listeners.
EXTENDS Integers, Sequences, FiniteSets, TLC

\* ---------------------------------------------------------------- bounds
MaxCalls == 2      \* create calls begun on S (nested calls included)

\* ---------------------------------------------------------------- values
DepIds == <<"A", "B">>     \* the ids S may list in '@require'
DepFut == 1 .. Len(DepIds) \* the container's pending future for each id
DepIndex(id) == IF id = "A" THEN 1 ELSE 2
DepVal(d) == IF d = 1 THEN "a" ELSE "b"      \* what future d resolves with
DepErr(d) == IF d = 1 THEN "e1" ELSE "e2"    \* what future d rejects with
PlainVal == "pv"            \* a non-promise value returned by container.create
ObjName(n) == IF n = 1 THEN "obj1" ELSE IF n = 2 THEN "obj2"
              ELSE IF n = 3 THEN "obj3" ELSE "obj4"
Falsy == ""                 \* a falsy, non-null factory result (0, "", false)
ContainerError == "ex"      \* container.create throws synchronously
FactoryError == "ef"        \* instantiate throws
ListenerError == "el"       \* a 'create' listener throws out of emit

VARIABLES
  singleton,      \* this.singleton
  dependencies,   \* this.dependencies
  instance,       \* this._instance (cachedResult)
  calls,          \* one record per create call begun, in call order
  dep,            \* state of the container's future for each dependency id
  stack,          \* the JS call stack: create frames and .then callback frames
  events,         \* 'create' events emitted on the container
  settleOrder,    \* history: container futures in the order they settled
  mod,            \* the descriptor handed to the constructor
  built           \* what `new Spec(id, mod, source)` gave

vars == <<singleton, dependencies, instance, calls, dep, stack, events,
          settleOrder, mod, built>>

\* A JS value as far as create can tell: unset (undefined), a plain value, a
\* future handed out by the container, or the future p of create call id.
Unset == [k |-> "unset", v |-> "", id |-> 0]
Val(x) == [k |-> "val", v |-> x, id |-> 0]
DepF(d) == [k |-> "dep", v |-> "", id |-> d]
CallF(c) == [k |-> "fut", v |-> "", id |-> c]
Threw(x) == [k |-> "threw", v |-> x, id |-> 0]

\* JS truthiness, as tested by `if (this._instance)`
Truthy(e) == e.k \in {"dep", "fut"} \/ (e.k = "val" /\ e.v # Falsy)

\* The record of one create call.  fast, saw, seen1, ret, reqs, waited,
\* invoked, fargs, made, inst, fthrew and lthrew are history: which path it
\* took, what this._instance and the first call's future were when it
\* began, what it returned, the container.create requests it issued, the
\* promises pending when it joined, and what its factory call and its event
\* notification did.  promises, args, remaining, join, reason are the locals
\* of create and the state of Promise.all; p, pv the future create returns.
NewCall(fast, saw, seen1) ==
  [fast |-> fast, saw |-> saw, seen1 |-> seen1, ret |-> Unset,
   reqs |-> <<>>, promises |-> <<>>,
   args |-> <<>>, remaining |-> 0, join |-> "none", reason |-> "", waited |-> {},
   jord |-> 0, p |-> "none", pv |-> "",
   invoked |-> 0, fargs |-> <<>>, made |-> FALSE, inst |-> "",
   fthrew |-> FALSE, lthrew |-> FALSE]


\* ------------------------------------------------------------ constructor
\* JS values of a descriptor's properties: undefined, a boolean, a string or
\* an array of strings.
Undef == [t |-> "undef", b |-> FALSE, s |-> "", l |-> <<>>]
Bool(x) == [t |-> "bool", b |-> x, s |-> "", l |-> <<>>]
Str(x) == [t |-> "str", b |-> FALSE, s |-> x, l |-> <<>>]
List(x) == [t |-> "list", b |-> FALSE, s |-> "", l |-> x]

\* Property names, as the characters indexOf looks at.
KRequire == <<"@", "r", "e", "q", "u", "i", "r", "e">>
KSingleton == <<"@", "s", "i", "n", "g", "l", "e", "t", "o", "n">>
KImplements == <<"@", "i", "m", "p", "l", "e", "m", "e", "n", "t", "s">>
KExtra == <<"@", "x">>
KName == <<"n", "a", "m", "e">>
KMid == <<"a", "@", "b">>

NoProps == [k \in {} |-> Undef]

\* A descriptor: its typeof class (null and undefined apart) and its own
\* enumerable properties.
Descriptor(type, props) == [type |-> type, props |-> props]

\* Truthiness of a property value, as `||` tests it.
TruthyVal(x) ==
  \/ x.t = "list"
  \/ x.t = "bool" /\ x.b
  \/ x.t = "str" /\ x.s # ""

\* x || y
OrElse(x, y) == IF TruthyVal(x) THEN x ELSE y

\* mod[key] on a value that is not null or undefined
Get(m, key) == IF key \in DOMAIN m.props THEN m.props[key] ELSE Undef

\* key.indexOf(ch): position of the first occurrence, from 0, or -1
RECURSIVE IndexFrom(_, _, _)
IndexFrom(key, ch, i) ==
  IF i > Len(key) THEN -1
  ELSE IF key[i] = ch THEN i - 1
  ELSE IndexFrom(key, ch, i + 1)

IndexOf(key, ch) == IndexFrom(key, ch, 1)

\* Faulty variant of IsAnnotation: any key that contains an '@'.
IsAnnotation_Contains(key) == IndexOf(key, "@") >= 0

\* `keys[i].indexOf('@') == 0`
IsAnnotation(key) == IndexOf(key, "@") = 0

NotBuilt ==
  [status |-> "none", dependencies |-> Undef, singleton |-> Undef,
   implements |-> Undef, a |-> NoProps]

\* function Spec(id, mod, source), lines 40-61.  Reading a property of null
\* or undefined (line 44) throws a TypeError.
SpecCtor(m) ==
  IF m.type \in {"null", "undefined"}
  THEN [NotBuilt EXCEPT !.status = "threw"]
  ELSE LET impl == OrElse(Get(m, KImplements), List(<<>>))
       IN [status |-> "ok",
           dependencies |-> OrElse(Get(m, KRequire), List(<<>>)),
           singleton |-> Get(m, KSingleton),
           implements |-> IF impl.t = "str" THEN List(<<impl.s>>) ELSE impl,
           a |-> IF m.type \in {"object", "function"}
                 THEN [k \in {x \in DOMAIN m.props : IsAnnotation(x)} |-> m.props[k]]
                 ELSE NoProps]

\* The descriptor of the Specification S whose create is modelled below.
DescriptorOf(deps, single) ==
  Descriptor("object", (KRequire :> List(deps)) @@ (KSingleton :> Bool(single)))

\* S as constructed from its descriptor, before any create call.
Init ==
  /\ singleton \in BOOLEAN
  /\ dependencies \in {<<>>, <<"A">>, <<"A", "B">>}
  /\ instance = Unset
  /\ calls = <<>>
  /\ dep = [d \in DepFut |-> "pending"]
  /\ stack = <<>>
  /\ events = <<>>
  /\ settleOrder = <<>>
  /\ mod = DescriptorOf(dependencies, singleton)
  /\ built = SpecCtor(mod)

\* ------------------------------------------------------------ promises
\* State of a value handed to Promise.all: plain values count as resolved.
FutState(cs, ds, e) ==
  IF e.k = "val" THEN [st |-> "resolved", v |-> e.v]
  ELSE IF e.k = "dep"
       THEN [st |-> ds[e.id],
             v |-> IF ds[e.id] = "resolved" THEN DepVal(e.id)
                   ELSE IF ds[e.id] = "rejected" THEN DepErr(e.id) ELSE ""]
  ELSE [st |-> cs[e.id].p, v |-> cs[e.id].pv]

\* Faulty variant of PromiseAllRes: values are collected in completion order.
PromiseAllRes_CompletionOrder(r, k, v) ==
  [r EXCEPT !.args = [r.args EXCEPT ![Len(r.args) - r.remaining + 1] = v],
            !.remaining = r.remaining - 1,
            !.join = IF r.join = "pending" /\ r.remaining = 1
                     THEN "resolved" ELSE r.join]

\* Faulty variant of PromiseAllRes: the join resolves while one promise is
\* still outstanding.
PromiseAllRes_EarlyResolve(r, k, v) ==
  [r EXCEPT !.args = [r.args EXCEPT ![k] = v],
            !.remaining = r.remaining - 1,
            !.join = IF r.join = "pending" /\ r.remaining <= 2
                     THEN "resolved" ELSE r.join]

\* Promise.all's res(i, val): store the value at its own index, count down,
\* resolve the join when nothing remains.
PromiseAllRes(r, k, v) ==
  [r EXCEPT !.args = [r.args EXCEPT ![k] = v],
            !.remaining = r.remaining - 1,
            !.join = IF r.join = "pending" /\ r.remaining = 1
                     THEN "resolved" ELSE r.join]

\* Faulty variant of PromiseAllRej: the join waits for the other promises to settle
\* before it rejects.
PromiseAllRej_WaitForAll(r, v) ==
  IF r.join = "pending" /\ r.remaining <= 1
  THEN [r EXCEPT !.join = "rejected", !.reason = v]
  ELSE [r EXCEPT !.remaining = r.remaining - 1]

\* Promise.all's reject: the first rejection settles the join.
PromiseAllRej(r, v) ==
  IF r.join = "pending" THEN [r EXCEPT !.join = "rejected", !.reason = v] ELSE r

PromiseAllFeed(r, k, s) ==
  IF s.st = "resolved" THEN PromiseAllRes(r, k, s.v)
  ELSE IF s.st = "rejected" THEN PromiseAllRej(r, s.v)
  ELSE r

RECURSIVE JoinInit(_, _, _, _)
JoinInit(r, cs, ds, k) ==
  IF k > Len(r.promises) THEN r
  ELSE JoinInit(PromiseAllFeed(r, k, FutState(cs, ds, r.promises[k])), cs, ds, k + 1)

\* p = Promise.all(promises).then(...): the join over the collected promises;
\* values and futures that are settled already are taken in index order.
PromiseAll(r, cs, ds) ==
  JoinInit([r EXCEPT !.args = [k \in 1 .. Len(r.promises) |-> "?"],
                     !.remaining = Len(r.promises),
                     !.join = IF Len(r.promises) = 0 THEN "resolved" ELSE "pending"],
           cs, ds, 1)

\* .then(onFulfilled) without onRejected: a rejected join rejects p with the
\* same reason and the callback is skipped.
ThenReject(r) ==
  IF r.join = "rejected" /\ r.p = "pending"
  THEN [r EXCEPT !.p = "rejected", !.pv = r.reason] ELSE r

\* The future e has settled with s: every join that holds e hears of it.
RECURSIVE Notify(_, _, _, _)
Notify(r, e, s, k) ==
  IF k > Len(r.promises) THEN r
  ELSE Notify(IF r.promises[k] = e THEN PromiseAllFeed(r, k, s) ELSE r, e, s, k + 1)

RECURSIVE SeqByOrd(_, _)
SeqByOrd(S, cs) ==
  IF S = {} THEN <<>>
  ELSE LET c == CHOOSE x \in S : \A y \in S : cs[x].jord <= cs[y].jord
       IN <<CallF(c)>> \o SeqByOrd(S \ {c}, cs)

\* Run the handlers of the futures in queue (already settled in cs, ds), and
\* those of the futures p that reject as a consequence.
RECURSIVE Propagate(_, _, _)
Propagate(cs, ds, queue) ==
  IF queue = <<>> THEN cs
  ELSE LET e == Head(queue)
           s == FutState(cs, ds, e)
           cs1 == [c \in DOMAIN cs |->
                     IF cs[c].join = "none" THEN cs[c]
                     ELSE ThenReject(Notify(cs[c], e, s, 1))]
           newly == {c \in DOMAIN cs : cs[c].p = "pending" /\ cs1[c].p = "rejected"}
       IN Propagate(cs1, ds, Tail(queue) \o SeqByOrd(newly, cs1))

\* ------------------------------------------------------------ frames
\* A frame: create called by via ("top", "container", "listener") for call c,
\* or the .then callback of call c holding the instance it made.
Frame(kind, c, via, inst) == [kind |-> kind, c |-> c, via |-> via, inst |-> inst]
Top == stack[Len(stack)]
Pop == SubSeq(stack, 1, Len(stack) - 1)

\* The running frame is create's loop (lines 80-83) about to request the next
\* dependency.
InLoop ==
  /\ stack # <<>>
  /\ Top.kind = "create"
  /\ Len(calls[Top.c].reqs) = Len(calls[Top.c].promises)
  /\ Len(calls[Top.c].promises) < Len(dependencies)

\* Faulty variant of NextDep: the loop walks deps from the last to the first.
NextDep_Reversed == dependencies[Len(dependencies) - Len(calls[Top.c].promises)]

\* deps[i] of the running loop
NextDep == dependencies[Len(calls[Top.c].promises) + 1]

InEmit == stack # <<>> /\ Top.kind = "then"

\* An exception thrown in the running frame: nothing in create catches it, so
\* it leaves every create frame on the stack; when the outermost create was
\* called by a listener, it leaves emit and the .then callback too, and
\* rejects that callback's p.
ThrowOut(cs, reason) ==
  LET cs1 == [c \in DOMAIN cs |->
                IF \E k \in DOMAIN stack : stack[k].c = c /\ stack[k].kind = "create"
                THEN [cs[c] EXCEPT !.ret = Threw(reason)]
                ELSE IF \E k \in DOMAIN stack : stack[k].c = c /\ stack[k].kind = "then"
                THEN [cs[c] EXCEPT !.p = "rejected", !.pv = reason, !.lthrew = TRUE]
                ELSE cs[c]]
  IN IF stack[1].kind = "then" THEN Propagate(cs1, dep, <<CallF(stack[1].c)>>) ELSE cs1

FactoryCalls == LET RECURSIVE Sum(_)
                    Sum(k) == IF k = 0 THEN 0 ELSE calls[k].invoked + Sum(k - 1)
                IN Sum(Len(calls))

\* ------------------------------------------------------------ create
\* `if (this._instance) { return this._instance; }`
FastPath == Truthy(instance)

\* Faulty variant of CacheFuture: the future is cached whatever the singleton flag.
CacheFuture_Always(c) == CallF(c)

\* `if (this.singleton) { this._instance = p; }`
CacheFuture(c) == IF singleton THEN CallF(c) ELSE instance

\* Faulty variant of CacheInstance: the instance is cached whatever the flag.
CacheInstance_Always(i) == Val(i)

\* `if (this.singleton) { this._instance = i; }`
CacheInstance(i) == IF singleton THEN Val(i) ELSE instance

\* Faulty variant of Emit: only singletons are announced.
Emit_SingletonOnly(i, c) ==
  IF singleton THEN Append(events, [inst |-> i, c |-> c]) ELSE events

\* `container.emit('create', i, this)`
Emit(i, c) == Append(events, [inst |-> i, c |-> c])

\* What the caller of a create call that came back with ret does with it: the
\* container hands it on as the promise of the dependency it was asked for.
Deliver(cs, via, parent, ret) ==
  IF via = "container"
  THEN [cs EXCEPT ![parent].promises = Append(@, ret)]
  ELSE cs

\* S.create(container) is called: by an outside caller (empty stack), by the
\* container while it serves container.create (re-entrant), or by a listener
\* of the 'create' event.  Lines 69-79.
CallCreate(via) ==
  /\ Len(calls) < MaxCalls
  /\ \/ via = "top" /\ stack = <<>>
     \/ via = "container" /\ InLoop
     \/ via = "listener" /\ InEmit
  /\ LET c == Len(calls) + 1
         parent == IF stack = <<>> THEN 0 ELSE Top.c
         cs0 == IF via = "container"
                THEN [calls EXCEPT ![parent].reqs = Append(@, NextDep)]
                ELSE calls
         seen1 == IF c = 1 THEN "self"
                  ELSE IF calls[1].ret.k = "threw" THEN "threw" ELSE calls[1].p
     IN IF FastPath
        THEN /\ calls' = Deliver(Append(cs0, [NewCall(TRUE, instance, seen1)
                                                EXCEPT !.ret = instance]),
                                 via, parent, instance)
             /\ stack' = stack
        ELSE /\ calls' = Append(cs0, NewCall(FALSE, instance, seen1))
             /\ stack' = Append(stack, Frame("create", c, via, ""))
  /\ UNCHANGED <<singleton, dependencies, instance, dep, events, settleOrder>>
  /\ UNCHANGED <<mod, built>>

\* Line 81, container.create(deps[i], this) returns the future it keeps for
\* that id, or a value that is no promise (an instance it holds already).
ContainerReturns(plain) ==
  /\ InLoop
  /\ LET e == IF plain THEN Val(PlainVal) ELSE DepF(DepIndex(NextDep))
     IN calls' = [calls EXCEPT ![Top.c].reqs = Append(@, NextDep),
                               ![Top.c].promises = Append(@, e)]
  /\ UNCHANGED <<singleton, dependencies, instance, dep, stack, events, settleOrder>>
  /\ UNCHANGED <<mod, built>>

\* Line 81, container.create(deps[i], this) throws.
ContainerThrows ==
  /\ InLoop
  /\ calls' = ThrowOut([calls EXCEPT ![Top.c].reqs = Append(@, NextDep)], ContainerError)
  /\ stack' = <<>>
  /\ UNCHANGED <<singleton, dependencies, instance, dep, events, settleOrder>>
  /\ UNCHANGED <<mod, built>>

\* Lines 87-103: the loop is over; join, chain, cache, return p.
CreateReturn ==
  /\ stack # <<>>
  /\ Top.kind = "create"
  /\ Len(calls[Top.c].promises) = Len(dependencies)
  /\ LET c == Top.c
         parent == IF Len(stack) > 1 THEN stack[Len(stack) - 1].c ELSE 0
         joins == Cardinality({x \in DOMAIN calls : calls[x].join # "none"})
         r0 == [calls[c] EXCEPT !.p = "pending", !.jord = joins + 1]
         r1 == ThenReject(PromiseAll(r0, calls, dep))
         r2 == [r1 EXCEPT !.ret = CallF(c),
                          !.waited = {k \in 1 .. Len(r0.promises) :
                                        FutState(calls, dep, r0.promises[k]).st = "pending"}]
     IN /\ calls' = Deliver([calls EXCEPT ![c] = r2], Top.via, parent, CallF(c))
        /\ instance' = CacheFuture(c)
  /\ stack' = Pop
  /\ UNCHANGED <<singleton, dependencies, dep, events, settleOrder>>
  /\ UNCHANGED <<mod, built>>

\* ------------------------------------------------------------ continuation
\* Lines 88-90: the join has resolved; the callback runs from the job queue
\* (empty stack), invokes instantiate with args and emits the event.
ThenRun(c, out) ==
  /\ stack = <<>>
  /\ c \in DOMAIN calls
  /\ calls[c].join = "resolved" /\ calls[c].p = "pending" /\ calls[c].invoked = 0
  /\ LET r == [calls[c] EXCEPT !.invoked = 1, !.fargs = calls[c].args]
     IN IF out = "throw"
        THEN /\ calls' = Propagate([calls EXCEPT ![c] = [r EXCEPT !.p = "rejected",
                                                                  !.pv = FactoryError,
                                                                  !.fthrew = TRUE]],
                                   dep, <<CallF(c)>>)
             /\ UNCHANGED <<stack, events>>
        ELSE LET i == IF out = "falsy" THEN Falsy ELSE ObjName(FactoryCalls + 1)
             IN /\ calls' = [calls EXCEPT ![c] = [r EXCEPT !.made = TRUE, !.inst = i]]
                /\ events' = Emit(i, c)
                /\ stack' = Append(stack, Frame("then", c, "", i))
  /\ UNCHANGED <<singleton, dependencies, instance, dep, settleOrder>>
  /\ UNCHANGED <<mod, built>>

\* A listener throws out of container.emit (line 90).
ListenerThrows ==
  /\ InEmit
  /\ calls' = ThrowOut(calls, ListenerError)
  /\ stack' = <<>>
  /\ UNCHANGED <<singleton, dependencies, instance, dep, events, settleOrder>>
  /\ UNCHANGED <<mod, built>>

\* Lines 94-95: emit returned; cache the instance, resolve p with it.
ThenReturn ==
  /\ InEmit
  /\ LET c == Top.c
         i == Top.inst
     IN /\ instance' = CacheInstance(i)
        /\ calls' = Propagate([calls EXCEPT ![c].p = "resolved", ![c].pv = i],
                              dep, <<CallF(c)>>)
  /\ stack' = Pop
  /\ UNCHANGED <<singleton, dependencies, dep, events, settleOrder>>
  /\ UNCHANGED <<mod, built>>

\* ------------------------------------------------------------ environment
HandedOut(d) ==
  \E c \in DOMAIN calls : \E k \in DOMAIN calls[c].promises : calls[c].promises[k] = DepF(d)

\* A future the container has handed out settles, between two jobs of the
\* event loop, and its handlers run.
SettleDep(d, st) ==
  /\ stack = <<>>
  /\ dep[d] = "pending"
  /\ HandedOut(d)
  /\ dep' = [dep EXCEPT ![d] = st]
  /\ calls' = Propagate(calls, dep', <<DepF(d)>>)
  /\ settleOrder' = Append(settleOrder, d)
  /\ UNCHANGED <<singleton, dependencies, instance, stack, events, mod, built>>

Next ==
  \/ \E via \in {"top", "container", "listener"} : CallCreate(via)
  \/ \E plain \in BOOLEAN : ContainerReturns(plain)
  \/ ContainerThrows
  \/ CreateReturn
  \/ \E c \in 1 .. MaxCalls, out \in {"throw", "falsy", "object"} : ThenRun(c, out)
  \/ ListenerThrows
  \/ ThenReturn
  \/ \E d \in DepFut, st \in {"resolved", "rejected"} : SettleDep(d, st)

Spec == Init /\ [][Next]_vars

TypeOK ==
  /\ singleton \in BOOLEAN
  /\ Len(calls) <= MaxCalls
  /\ Len(stack) <= MaxCalls
  /\ instance.k \in {"unset", "val", "fut"}

\* ------------------------------------------------------------ claims
Returned(c) == calls[c].ret.k \in {"val", "dep", "fut"}

\* C1: singleton coalescing.  Every create call on a singleton S that begins
\* after the first call has begun and before the first call's future has
\* settled returns the very future the first call returns.
C1_Coalescing ==
  singleton =>
    \A c \in DOMAIN calls :
      (/\ c > 1
       /\ calls[c].seen1 \in {"none", "pending"}
       /\ Returned(c)
       /\ calls[1].ret.k = "fut")
      => calls[c].ret = calls[1].ret

\* C2: at-most-once instantiation.  For a singleton S the factory is invoked
\* at most once over any sequence of create calls, whatever it returns.
C2_AtMostOnce == singleton => FactoryCalls <= 1

\* The value a promise handed to Promise.all stands for once it has resolved.
ResolvedValue(e) ==
  IF e.k = "val" THEN e.v
  ELSE IF e.k = "dep" THEN DepVal(e.id)
  ELSE calls[e.id].pv

IsResolved(e) ==
  \/ e.k = "val"
  \/ e.k = "dep" /\ dep[e.id] = "resolved"
  \/ e.k = "fut" /\ calls[e.id].p = "resolved"

IsRejected(e) ==
  \/ e.k = "dep" /\ dep[e.id] = "rejected"
  \/ e.k = "fut" /\ calls[e.id].p = "rejected"

RejectReason(e) == IF e.k = "dep" THEN DepErr(e.id) ELSE calls[e.id].pv

\* C3: positional ordering.  Whenever create invokes the factory, there is one
\* argument per declared dependency and the k-th argument is the value that the
\* promise requested for the k-th id resolved with, whatever the order in
\* which the promises settled.
C3_PositionalOrdering ==
  \A c \in DOMAIN calls :
    calls[c].invoked = 1 =>
      /\ calls[c].reqs = dependencies
      /\ Len(calls[c].fargs) = Len(dependencies)
      /\ \A k \in 1 .. Len(dependencies) :
           /\ IsResolved(calls[c].promises[k])
           /\ calls[c].fargs[k] = ResolvedValue(calls[c].promises[k])

\* C3 witness: dependencies [A, B], both futures pending at the join, B settled
\* before A, and the factory has been invoked with (a, b).
C3_Witness ==
  \E c \in DOMAIN calls :
    /\ calls[c].promises = <<DepF(1), DepF(2)>>
    /\ calls[c].waited = {1, 2}
    /\ settleOrder = <<2, 1>>
    /\ calls[c].invoked = 1
    /\ calls[c].fargs = <<"a", "b">>

\* C4: fail-fast.  As soon as a promise of a create call's join is rejected,
\* the future the call returned is rejected with the reason of a rejected
\* promise (the one rejection, when the others are pending or resolved), and
\* the factory is not invoked for that call, then or later.
C4_FailFast ==
  \A c \in DOMAIN calls :
    (calls[c].join # "none" /\ \E k \in DOMAIN calls[c].promises : IsRejected(calls[c].promises[k]))
    => /\ calls[c].p = "rejected"
       /\ calls[c].invoked = 0
       /\ \E k \in DOMAIN calls[c].promises :
            /\ IsRejected(calls[c].promises[k])
            /\ calls[c].pv = RejectReason(calls[c].promises[k])

\* C4 witness: B rejected while A was pending, A resolved afterwards; the
\* call's future is rejected with B's reason and the factory was not invoked.
C4_Witness ==
  \E c \in DOMAIN calls :
    /\ calls[c].promises = <<DepF(1), DepF(2)>>
    /\ calls[c].waited = {1, 2}
    /\ settleOrder = <<2, 1>>
    /\ dep = <<"resolved", "rejected">>
    /\ calls[c].p = "rejected" /\ calls[c].pv = "e2"
    /\ calls[c].invoked = 0

\* C5: non-singleton independence.  No call of a non-singleton S takes the
\* fast path; the container.create requests of a call are a prefix of
\* dependencies, and all of them once the call has returned; a call returns
\* its own future; its factory runs at most once, only after its join has
\* resolved, and has run once when its future is resolved; two calls never
\* share a future or a constructed instance.
C5_NonSingletonIndependence ==
  ~singleton =>
    /\ \A c \in DOMAIN calls :
         /\ ~calls[c].fast
         /\ Len(calls[c].reqs) <= Len(dependencies)
         /\ calls[c].reqs = SubSeq(dependencies, 1, Len(calls[c].reqs))
         /\ Returned(c) => calls[c].reqs = dependencies /\ calls[c].ret = CallF(c)
         /\ calls[c].invoked <= 1
         /\ calls[c].invoked = 1 => calls[c].join = "resolved"
         /\ calls[c].p = "resolved" => calls[c].invoked = 1 /\ calls[c].pv = calls[c].inst
    /\ \A c1, c2 \in DOMAIN calls :
         (c1 # c2 /\ calls[c1].made /\ calls[c2].made /\ calls[c1].inst # Falsy)
         => calls[c1].inst # calls[c2].inst
    /\ FactoryCalls = Cardinality({c \in DOMAIN calls : calls[c].join = "resolved"
                                                        /\ calls[c].invoked = 1})

\* C5 witness: two calls of a non-singleton S, both resolved, two factory
\* invocations, two instances.
C5_Witness ==
  /\ ~singleton
  /\ dependencies # <<>>
  /\ Len(calls) >= 2
  /\ calls[1].p = "resolved" /\ calls[2].p = "resolved"
  /\ FactoryCalls = 2
  /\ calls[1].pv # calls[2].pv

\* C6: poisoning.  Once the first create attempt of a singleton S has been
\* rejected by a dependency, cachedResult is and stays that rejected future:
\* every create call begun afterwards returns it on the fast path, no
\* container.create request is issued any more and the factory is not invoked
\* any more.
C6_Poisoning ==
  [][(singleton /\ Len(calls) >= 1 /\ calls[1].join = "rejected") =>
       /\ instance = CallF(1) /\ instance' = CallF(1)
       /\ calls'[1].p = "rejected"
       /\ FactoryCalls' = FactoryCalls
       /\ \A c \in DOMAIN calls : calls'[c].reqs = calls[c].reqs
       /\ Len(calls') > Len(calls) =>
            LET r == calls'[Len(calls')]
            IN r.fast /\ r.ret = CallF(1) /\ r.reqs = <<>>
    ]_vars

\* C7: the singleton state machine is monotonic.  cachedResult goes from unset
\* to a future and from a future to the instance and nowhere else, and once it
\* is set no create call behaves as on an Unresolved Specification (takes the
\* slow path).
C7_Monotonic ==
  [][singleton =>
       /\ (instance.k = "unset" /\ instance' # instance) => instance'.k = "fut"
       /\ (instance.k = "fut" /\ instance' # instance) => instance'.k = "val"
       /\ instance.k = "val" => instance' = instance
       /\ (instance.k # "unset" /\ Len(calls') > Len(calls)) => calls'[Len(calls')].fast
    ]_vars

\* C8: the fast path has no effects.  A create call that finds cachedResult
\* set returns it at once, requests nothing from the container, invokes no
\* factory and emits no event.
C8_FastPathNoEffects ==
  \A c \in DOMAIN calls :
    calls[c].saw.k # "unset" =>
      /\ calls[c].fast
      /\ calls[c].ret = calls[c].saw
      /\ calls[c].reqs = <<>>
      /\ calls[c].invoked = 0
      /\ \A j \in DOMAIN events : events[j].c # c

\* C9: creation events match instantiations.  There is exactly one event per
\* factory invocation that returned, it carries the instance that invocation
\* made, and there is none for a call on the fast path, a call whose join was
\* rejected or a call whose factory threw.
C9_EventsMatchInstantiations ==
  /\ Len(events) = Cardinality({c \in DOMAIN calls : calls[c].made})
  /\ \A c \in DOMAIN calls :
       IF calls[c].made
       THEN /\ Cardinality({j \in DOMAIN events : events[j].c = c}) = 1
            /\ \A j \in DOMAIN events : events[j].c = c => events[j].inst = calls[c].inst
       ELSE \A j \in DOMAIN events : events[j].c # c
  /\ \A c \in DOMAIN calls :
       (calls[c].fast \/ calls[c].join = "rejected" \/ calls[c].fthrew) => ~calls[c].made

\* C9 witness: a non-singleton call was instantiated and notified, another
\* call's factory threw, and there is the one event.
C9_Witness ==
  /\ ~singleton
  /\ Len(events) = 1
  /\ \E c1, c2 \in DOMAIN calls :
       /\ calls[c1].made /\ calls[c1].p = "resolved" /\ events[1] = [inst |-> calls[c1].inst, c |-> c1]
       /\ calls[c2].fthrew

\* C10: every failure met while serving a create call rejects the future the
\* call returns, with the original reason; create never fails synchronously.
C10_FailuresRejectFuture ==
  \A c \in DOMAIN calls :
    /\ calls[c].ret.k # "threw"
    /\ calls[c].join = "rejected" => calls[c].p = "rejected" /\ calls[c].pv = calls[c].reason
    /\ calls[c].fthrew => calls[c].p = "rejected" /\ calls[c].pv = FactoryError
    /\ calls[c].lthrew => calls[c].p = "rejected"

\* C11: a non-singleton Specification never populates cachedResult.
C11_NonSingletonNeverCaches == ~singleton => instance = Unset

\* C11 witness: a non-singleton S of which one create call has resolved and
\* another has been rejected.
C11_Witness ==
  /\ ~singleton
  /\ \E c1, c2 \in DOMAIN calls : calls[c1].p = "resolved" /\ calls[c2].p = "rejected"

\* C12: a failure of the factory rejects the future of its create call with
\* that failure, after the dependencies have resolved and without an event;
\* for a singleton cachedResult is and stays a rejected future, and from then
\* on every create call takes the fast path and the factory is not invoked.
C12_FactoryFailure ==
  /\ [](\A c \in DOMAIN calls :
          calls[c].fthrew =>
            /\ calls[c].p = "rejected" /\ calls[c].pv = FactoryError
            /\ calls[c].join = "resolved"
            /\ \A j \in DOMAIN events : events[j].c # c
            /\ singleton => instance.k = "fut" /\ calls[instance.id].p = "rejected")
  /\ [][(singleton /\ \E c \in DOMAIN calls : calls[c].fthrew) =>
          /\ instance' = instance
          /\ FactoryCalls' = FactoryCalls
          /\ Len(calls') > Len(calls) => calls'[Len(calls')].fast
       ]_vars

\* C15: dependency fan-out.  The container.create requests of a create call
\* are always a prefix of dependencies, in declared order; a call off the
\* fast path that has returned has issued one request per entry and holds one
\* promise per entry, whether or not any of them has settled.
C15_FanOut ==
  \A c \in DOMAIN calls :
    /\ Len(calls[c].reqs) <= Len(dependencies)
    /\ calls[c].reqs = SubSeq(dependencies, 1, Len(calls[c].reqs))
    /\ (~calls[c].fast /\ Returned(c))
       => /\ calls[c].reqs = dependencies
          /\ Len(calls[c].promises) = Len(dependencies)

\* C15 witness: a call has returned with requests for A then B while both
\* futures were still pending, and B has settled before A since.
C15_Witness ==
  \E c \in DOMAIN calls :
    /\ Returned(c) /\ ~calls[c].fast
    /\ calls[c].reqs = <<"A", "B">>
    /\ calls[c].waited = {1, 2}
    /\ settleOrder = <<2, 1>>

\* C16: cache upgrade.  Once the chain of a singleton's create call has
\* resolved, cachedResult is the instance its future resolved with, and a
\* create call that finds a settled instance cached returns it.
C16_CacheUpgrade ==
  singleton =>
    \A c \in DOMAIN calls :
      /\ calls[c].p = "resolved" => instance = Val(calls[c].pv)
      /\ calls[c].saw.k = "val" => calls[c].fast /\ calls[c].ret = calls[c].saw

\* ------------------------------------------------------------ scheduling
\* Fair scheduling of continuations.  Synchronous code runs to completion: a
\* container.create request comes back (returns or throws), create reaches its
\* return, and container.emit comes back (returns or a listener throws).  The
\* job queue runs every queued .then callback.  Nothing obliges a dependency
\* future to settle or a caller to call create.
Fairness ==
  /\ WF_vars((\E plain \in BOOLEAN : ContainerReturns(plain)) \/ ContainerThrows)
  /\ WF_vars(CreateReturn)
  /\ WF_vars(ThenReturn \/ ListenerThrows)
  /\ \A c \in 1 .. MaxCalls :
       WF_vars(\E out \in {"throw", "falsy", "object"} : ThenRun(c, out))

LiveSpec == Init /\ [][Next]_vars /\ Fairness

\* A create call that went past the fast path and returned its future p.
Chained(c) == c \in DOMAIN calls /\ ~calls[c].fast /\ Returned(c)

\* While a promise of the join is unsettled and none is rejected, the future
\* of the create call is pending and the factory has not been invoked.
Stalls ==
  \A c \in DOMAIN calls :
    (/\ Chained(c)
     /\ \E k \in DOMAIN calls[c].promises :
          ~IsResolved(calls[c].promises[k]) /\ ~IsRejected(calls[c].promises[k])
     /\ \A k \in DOMAIN calls[c].promises : ~IsRejected(calls[c].promises[k]))
    => calls[c].p = "pending" /\ calls[c].invoked = 0

C18_FactoryAfterReturn ==
  [][/\ \A c \in DOMAIN calls' : calls'[c].invoked = 1 => calls'[c].ret = CallF(c)
     /\ (singleton /\ instance.k = "val") => instance'.k = "val"
    ]_vars

\* C19: with a container that serves create(id) by calling the registered
\* Specification's create, a singleton S on a dependency cycle starts its
\* resolution at most once: a create call that arrives from container.create
\* while a create call of S is in its loop takes the fast path.
C19_CycleStartsOnce ==
  [][(singleton /\ InLoop /\ Len(calls') > Len(calls)) => calls'[Len(calls')].fast]_vars

\* C20: while the 'create' event of an instantiation is being delivered, the
\* factory has returned, the future of that create call is still pending and,
\* for a singleton, cachedResult is still that in-flight future; a create call
\* made by a listener then returns that future and no factory is invoked.
C20_EventOrdering ==
  [][InEmit =>
       LET c == Top.c
       IN /\ calls[c].made /\ calls[c].p = "pending"
          /\ events[Len(events)] = [inst |-> calls[c].inst, c |-> c]
          /\ singleton =>
               /\ instance = CallF(c)
               /\ Len(calls') > Len(calls) =>
                    /\ calls'[Len(calls')].fast
                    /\ calls'[Len(calls')].ret = CallF(c)
                    /\ FactoryCalls' = FactoryCalls
    ]_vars

\* ------------------------------------------------------------ construction
\* The descriptors tried: objects and functions with any subset of six own
\* properties, and the values that are neither.
Opt(key, vals) == {NoProps} \cup {key :> v : v \in vals}

PropSets ==
  {r @@ g @@ i @@ x @@ n @@ m :
     r \in Opt(KRequire, {List(<<"a", "b">>)}),
     g \in Opt(KSingleton, {Bool(TRUE), Bool(FALSE)}),
     i \in Opt(KImplements, {Str("Foo"), List(<<"Foo", "Bar">>)}),
     x \in Opt(KExtra, {Str("x")}),
     n \in Opt(KName, {Str("n")}),
     m \in Opt(KMid, {Str("y")})}

Descriptors ==
  {Descriptor(t, p) : t \in {"object", "function"}, p \in PropSets}
  \cup {Descriptor(t, NoProps) : t \in {"string", "number", "boolean", "null", "undefined"}}

CtorInit ==
  /\ mod \in Descriptors
  /\ built = NotBuilt
  /\ singleton = FALSE
  /\ dependencies = <<>>
  /\ instance = Unset
  /\ calls = <<>>
  /\ dep = [d \in DepFut |-> "pending"]
  /\ stack = <<>>
  /\ events = <<>>
  /\ settleOrder = <<>>

\* new Spec(id, mod, source)
Construct ==
  /\ built.status = "none"
  /\ built' = SpecCtor(mod)
  /\ UNCHANGED <<singleton, dependencies, instance, calls, dep, stack, events,
                 settleOrder, mod>>

CtorNext == Construct

CtorSpec == CtorInit /\ [][CtorNext]_vars

\* C13: construction never fails, and for a descriptor that is neither an
\* object nor a function it yields empty annotations, empty dependencies, a
\* false singleton flag and empty implements.
C13_ConstructionNeverFails ==
  /\ built.status # "threw"
  /\ (built.status = "ok" /\ mod.type \notin {"object", "function"})
     => /\ built.a = NoProps
        /\ built.dependencies = List(<<>>)
        /\ ~TruthyVal(built.singleton)
        /\ built.implements = List(<<>>)

StartsWithAt(key) == Len(key) > 0 /\ key[1] = "@"

====
